---- MODULE Spec2Model ----
(***************************************************************************)
(* A model of the log sender of src/main.go: producers calling Log, the   *)
(* buffered channel logQueue, the background goroutines started by Start  *)
(* (processQueue, each with its own batch and ticker) and sendBatch with  *)
(* its outcomes.                                                           *)
(***************************************************************************)
EXTENDS Integers, Sequences, FiniteSets, TLC

\* ------------------------------------------------------------------ bounds
\* Number of producer goroutines that call Log.
NumProducers == 2
\* Number of Log calls made in one run of Spec.
MaxLogs == 3
\* Number of Start calls made in one run of Spec.
MaxWorkers == 2
\* The capacity of logQueue in the runs of Spec: line 115's 1000, scaled down
\* so that a few Log calls fill the queue.
QueueCapacity == 2
\* The capacity of logQueue as line 115 makes it, used in the runs of Spec10.
ChanCapacity == 1000
\* batchSize is drawn from 0..MaxBatchSize in Spec.
MaxBatchSize == 2
\* Number of Log calls made in one run of SpecSend.
MaxLogsSend == 3
\* Number of Log calls made in one run of Spec10.
MaxLogs10 == 15
\* Number of timer-triggered flushes in one run of Spec10.
MaxTimerFlushes10 == 1
\* The batch size main passes to NewLogSender.
MainBatchSize == 10
\* Number of Log calls made in one run of SpecLog.
MaxLogsLog == 1
\* Number of Log calls made in one run of SpecLive.
MaxLogsLive == 3

Producers == 1..NumProducers
Workers == 1..MaxWorkers
BatchSizes == 0..MaxBatchSize

\* ------------------------------------------------------------ value model
\* A Go pointer field is the empty set (nil) or a singleton (points to a value).
UnsetValue ==
    [StringValue |-> {}, BoolValue |-> {}, IntValue |-> {}, DoubleValue |-> {},
     ArrayValue |-> {}, KvlistValue |-> {}, BytesValue |-> {}]

\* Doubles are tokens; NaN and the infinities are the ones json.Marshal rejects.
FiniteDoubles == {"30.5"}
NonFiniteDoubles == {"NaN", "+Inf"}

\* The decimal numeral of an integer, as %v prints it.
RECURSIVE Numeral(_)
Numeral(n) ==
    IF n < 0 THEN "-" \o Numeral(0 - n)
    ELSE IF n < 10 THEN <<"0", "1", "2", "3", "4", "5", "6", "7", "8", "9">>[n + 1]
    ELSE Numeral(n \div 10) \o Numeral(n % 10)

\* fmt.Sprintf("%v", val) for the values of the other dynamic types the model
\* uses: the nil interface, float32 (a token that is its own text) and the
\* sized integer types.
Sprint(v) ==
    IF v.type = "nil" THEN "<nil>"
    ELSE IF v.type = "float32" THEN v.f
    ELSE Numeral(v.i)

\* A convertToAttributeValue without the case for bool: a bool takes the
\* default case and becomes the string %v prints.
convertToAttributeValueNoBool(v) ==
    CASE v.type = "string" -> [UnsetValue EXCEPT !.StringValue = {v.s}]
      [] v.type = "int" -> [UnsetValue EXCEPT !.IntValue = {v.i}]
      [] v.type = "int64" -> [UnsetValue EXCEPT !.IntValue = {v.i}]
      [] v.type = "float64" -> [UnsetValue EXCEPT !.DoubleValue = {v.f}]
      [] v.type = "bool" ->
             [UnsetValue EXCEPT !.StringValue = {IF v.b THEN "true" ELSE "false"}]
      [] OTHER -> [UnsetValue EXCEPT !.StringValue = {Sprint(v)}]

\* Lines 150-167: the type switch over string, int, int64, float64 and bool,
\* with fmt.Sprintf("%v", val) for every other dynamic type.
convertToAttributeValue(v) ==
    CASE v.type = "string" -> [UnsetValue EXCEPT !.StringValue = {v.s}]
      [] v.type = "int" -> [UnsetValue EXCEPT !.IntValue = {v.i}]
      [] v.type = "int64" -> [UnsetValue EXCEPT !.IntValue = {v.i}]
      [] v.type = "float64" -> [UnsetValue EXCEPT !.DoubleValue = {v.f}]
      [] v.type = "bool" -> [UnsetValue EXCEPT !.BoolValue = {v.b}]
      [] OTHER -> [UnsetValue EXCEPT !.StringValue = {Sprint(v)}]

\* The attrs argument of Log: NilAttrs, or a sequence of <<key, value>> pairs
\* in the order the map iteration yields them.
NilAttrs == <<>>
LogAttrs ==
    { NilAttrs,
      << <<"timeout", [type |-> "float64", f |-> "NaN"]>> >> }

\* Values of the dynamic types an attribute of a Log call can have: the five
\* types of the type switch, and int32, uint8, float32 and the nil interface
\* for the others.
HostValues ==
    {[type |-> "string", s |-> x] : x \in {"john_doe", ""}}
    \cup {[type |-> "int", i |-> x] : x \in {3, -1}}
    \cup {[type |-> "int64", i |-> x] : x \in {0, 12}}
    \cup {[type |-> "float64", f |-> x] : x \in FiniteDoubles \cup {"NaN"}}
    \cup {[type |-> "bool", b |-> x] : x \in BOOLEAN}
    \cup {[type |-> "int32", i |-> x] : x \in {7, -40}}
    \cup {[type |-> "uint8", i |-> 200]}
    \cup {[type |-> "float32", f |-> "30.5"]}
    \cup {[type |-> "nil"]}

\* The attribute map of main's WARN call (lines 293-298), as a set of
\* <<key, value>> pairs with distinct keys.
WarnAttrs ==
    { <<"retry.count", [type |-> "int", i |-> 3]>>,
      <<"timeout", [type |-> "float64", f |-> "30.5"]>>,
      <<"enabled", [type |-> "bool", b |-> TRUE]>>,
      <<"user", [type |-> "string", s |-> "john_doe"]>> }

\* The attribute maps of the runs of SpecLog: the empty map (which Log treats
\* as it treats nil but for the capacity of the slice), the maps of one entry
\* and the map of main's WARN call.
AttrMaps == {{}} \cup {{<<"key", v>>} : v \in HostValues} \cup {WarnAttrs}

\* The orders in which "for k, v := range attrs" (line 135) may yield the
\* entries of a map: every order without repetition.
Orders(m) ==
    {o \in [1..Cardinality(m) -> m] :
        \A i, j \in 1..Cardinality(m) : i # j => o[i] # o[j]}

\* A Log whose loop writes every attribute into the same slot of the slice:
\* the record keeps the attribute yielded last.
BuildEntryLast(id, severityText, severityNumber, attrs) ==
    [ id |-> id,
      SeverityText |-> severityText,
      SeverityNumber |-> severityNumber,
      Body |-> [UnsetValue EXCEPT !.StringValue = {id}],
      Attributes |->
          [i \in 1..(IF attrs = <<>> THEN 0 ELSE 1) |->
              [Key |-> attrs[Len(attrs)][1],
               Value |-> convertToAttributeValue(attrs[Len(attrs)][2])]] ]

\* The record Log builds (lines 124-141). id is the identity of the call
\* (producer, call number): it stands for the record's message and timestamp.
BuildEntry(id, severityText, severityNumber, attrs) ==
    [ id |-> id,
      SeverityText |-> severityText,
      SeverityNumber |-> severityNumber,
      Body |-> [UnsetValue EXCEPT !.StringValue = {id}],
      Attributes |->
          [i \in 1..Len(attrs) |->
              [Key |-> attrs[i][1], Value |-> convertToAttributeValue(attrs[i][2])]] ]

\* json.Marshal fails on a float64 that is NaN or infinite and on nothing else
\* the payload can hold.
MarshalOK(b) ==
    \A i \in 1..Len(b) :
        \A j \in 1..Len(b[i].Attributes) :
            b[i].Attributes[j].Value.DoubleValue \cap NonFiniteDoubles = {}

\* The static resource and scope of sendBatch.
ResourceAttrs ==
    << [Key |-> "service.name", Value |-> [UnsetValue EXCEPT !.StringValue = {"my-go-app"}]],
       [Key |-> "service.version", Value |-> [UnsetValue EXCEPT !.StringValue = {"1.0.0"}]],
       [Key |-> "telemetry.sdk.language", Value |-> [UnsetValue EXCEPT !.StringValue = {"go"}]] >>
ScopeValue == [Name |-> "custom-logger", Version |-> "1.0"]

\* A sendBatch that wraps every record in a ResourceLogs of its own.
PayloadPerRecord(b) ==
    [resourceLogs |->
        [i \in 1..Len(b) |->
            [Resource |-> [Attributes |-> ResourceAttrs],
             ScopeLogs |-> << [Scope |-> ScopeValue, LogRecords |-> <<b[i]>>] >>]]]

\* Lines 218-231: the payload sendBatch marshals.
Payload(b) ==
    [resourceLogs |->
        << [Resource |-> [Attributes |-> ResourceAttrs],
            ScopeLogs |-> << [Scope |-> ScopeValue, LogRecords |-> b] >>] >>]

\* Response statuses and bodies the collector may answer with.
Statuses == {101, 204, 304, 399, 400, 422, 500}
Bodies == {"object", "array", "garbage", "empty"}
\* The responses in the runs of Spec and Spec10: one accepted, one rejected.
FewStatuses == {204, 422}
FewBodies == {"garbage"}
\* json.NewDecoder(resp.Body).Decode into a map succeeds on a JSON object only.
DecodeOK(body) == body = "object"

NoEntry == <<>>
NoArgs == <<>>
NoRequest == <<>>

\* ------------------------------------------------------------------ state
VARIABLES
    endpointOK,   \* whether ls.endpoint+"/v1/logs" parses as a URL
    batchSize,    \* ls.batchSize
    logQueue,     \* ls.logQueue: the records buffered in the channel
    ppc,          \* per producer: "idle", or "select" (at line 143)
    entry,        \* per producer: the record built by the Log call in progress
    ncalls,       \* per producer: number of Log calls made
    args,         \* per producer: the arguments of the Log call in progress
    nStarted,     \* number of Start calls; workers 1..nStarted run
    wpc,          \* per worker: "unstarted", "select", "inflight" (in client.Do)
    batch,        \* per worker: the local variable batch of processQueue
    ticker,       \* per worker: ticker.C, a channel of capacity 1 that holds the
                  \* time of the tick, counted in records accepted so far
    request,      \* per worker: the request client.Do is sending
    last,         \* the latest sendBatch call that returned: what it got and logged
    accepted,     \* history: the records sent into logQueue, in order
    dropped,      \* history: the records dropped at line 146
    flushes       \* history: the sendBatch calls, in order

vars == <<endpointOK, batchSize, logQueue, ppc, entry, ncalls, args, nStarted,
          wpc, batch, ticker, request, last, accepted, dropped, flushes>>

config == <<endpointOK, batchSize>>
producerVars == <<ppc, entry, ncalls, args>>

RECURSIVE SumTo(_, _)
SumTo(f, n) == IF n = 0 THEN 0 ELSE f[n] + SumTo(f, n - 1)
\* Number of Log calls made so far by all producers.
TotalCalls == SumTo(ncalls, NumProducers)

NoResponse == {}
NoReturn == [outcome |-> "None", lines |-> <<>>, sent |-> FALSE, resp |-> NoResponse]

\* ---------------------------------------------------------- NewLogSender
NewLogSender(sizes) ==
    /\ endpointOK \in BOOLEAN
    /\ batchSize \in sizes
    /\ logQueue = <<>>
    /\ ppc = [p \in Producers |-> "idle"]
    /\ entry = [p \in Producers |-> NoEntry]
    /\ ncalls = [p \in Producers |-> 0]
    /\ args = [p \in Producers |-> NoArgs]
    /\ nStarted = 0
    /\ wpc = [w \in Workers |-> "unstarted"]
    /\ batch = [w \in Workers |-> <<>>]
    /\ ticker = [w \in Workers |-> <<>>]
    /\ request = [w \in Workers |-> NoRequest]
    /\ last = NoReturn
    /\ accepted = <<>>
    /\ dropped = {}
    /\ flushes = <<>>

Init == NewLogSender(BatchSizes)

\* ------------------------------------------------------------------ Start
\* A Start that launches every goroutine there is at its first call.
StartAll(maxWorkers) ==
    /\ nStarted < maxWorkers
    /\ nStarted' = nStarted + 1
    /\ wpc' = [w \in Workers |-> IF wpc[w] = "unstarted" THEN "select" ELSE wpc[w]]
    /\ UNCHANGED <<config, logQueue, producerVars, batch, ticker, request, last,
                   accepted, dropped, flushes>>

\* go ls.processQueue(): one more goroutine, with an empty batch and a new
\* ticker. Nothing in Start looks at whether one is running already.
Start(maxWorkers) ==
    /\ nStarted < maxWorkers
    /\ nStarted' = nStarted + 1
    /\ wpc' = [wpc EXCEPT ![nStarted + 1] = "select"]
    /\ batch' = [batch EXCEPT ![nStarted + 1] = <<>>]
    /\ ticker' = [ticker EXCEPT ![nStarted + 1] = <<>>]
    /\ UNCHANGED <<config, logQueue, producerVars, request, last, accepted,
                   dropped, flushes>>

\* -------------------------------------------------------------------- Log
\* Lines 123-141: the producer builds its record.
LogEnter(p, maxLogs, severity, attrs) ==
    /\ ppc[p] = "idle"
    /\ TotalCalls < maxLogs
    /\ ncalls' = [ncalls EXCEPT ![p] = @ + 1]
    /\ entry' = [entry EXCEPT
                    ![p] = BuildEntry(<<p, ncalls[p] + 1>>, severity[1], severity[2], attrs)]
    /\ args' = [args EXCEPT
                   ![p] = [message |-> <<p, ncalls[p] + 1>>, severityText |-> severity[1],
                           severityNumber |-> severity[2], attrs |-> attrs]]
    /\ ppc' = [ppc EXCEPT ![p] = "select"]
    /\ UNCHANGED <<config, logQueue, nStarted, wpc, batch, ticker, request, last,
                   accepted, dropped, flushes>>

\* A Log that makes room in a full queue by evicting the oldest record.
LogSelectEvict(p, capacity) ==
    /\ ppc[p] = "select"
    /\ IF Len(logQueue) < capacity
          THEN /\ logQueue' = Append(logQueue, entry[p])
               /\ UNCHANGED dropped
          ELSE /\ logQueue' = Append(Tail(logQueue), entry[p])
               /\ dropped' = dropped \cup {Head(logQueue)}
    /\ accepted' = Append(accepted, entry[p])
    /\ ppc' = [ppc EXCEPT ![p] = "idle"]
    /\ entry' = [entry EXCEPT ![p] = NoEntry]
    /\ args' = [args EXCEPT ![p] = NoArgs]
    /\ UNCHANGED <<config, ncalls, nStarted, wpc, batch, ticker, request, last,
                   flushes>>

\* A Log that puts its record at the head of the queue.
LogSelectFront(p, capacity) ==
    /\ ppc[p] = "select"
    /\ IF Len(logQueue) < capacity
          THEN /\ logQueue' = <<entry[p]>> \o logQueue
               /\ accepted' = Append(accepted, entry[p])
               /\ UNCHANGED dropped
          ELSE /\ dropped' = dropped \cup {entry[p]}
               /\ UNCHANGED <<logQueue, accepted>>
    /\ ppc' = [ppc EXCEPT ![p] = "idle"]
    /\ entry' = [entry EXCEPT ![p] = NoEntry]
    /\ args' = [args EXCEPT ![p] = NoArgs]
    /\ UNCHANGED <<config, ncalls, nStarted, wpc, batch, ticker, request, last,
                   flushes>>

\* A Log whose channel send has no default case: it waits for room.
LogSelectBlocking(p, capacity) ==
    /\ ppc[p] = "select"
    /\ Len(logQueue) < capacity
    /\ logQueue' = Append(logQueue, entry[p])
    /\ accepted' = Append(accepted, entry[p])
    /\ ppc' = [ppc EXCEPT ![p] = "idle"]
    /\ entry' = [entry EXCEPT ![p] = NoEntry]
    /\ args' = [args EXCEPT ![p] = NoArgs]
    /\ UNCHANGED <<config, ncalls, nStarted, wpc, batch, ticker, request, last,
                   dropped, flushes>>

\* A Log on a queue that grows: the record is appended whatever the length.
LogSelectGrow(p, capacity) ==
    /\ ppc[p] = "select"
    /\ logQueue' = Append(logQueue, entry[p])
    /\ accepted' = Append(accepted, entry[p])
    /\ ppc' = [ppc EXCEPT ![p] = "idle"]
    /\ entry' = [entry EXCEPT ![p] = NoEntry]
    /\ args' = [args EXCEPT ![p] = NoArgs]
    /\ UNCHANGED <<config, ncalls, nStarted, wpc, batch, ticker, request, last,
                   dropped, flushes>>

\* Lines 143-147: select { case ls.logQueue <- entry: default: log.Println }.
LogSelect(p, capacity) ==
    /\ ppc[p] = "select"
    /\ IF Len(logQueue) < capacity
          THEN /\ logQueue' = Append(logQueue, entry[p])
               /\ accepted' = Append(accepted, entry[p])
               /\ UNCHANGED dropped
          ELSE /\ dropped' = dropped \cup {entry[p]}
               /\ UNCHANGED <<logQueue, accepted>>
    /\ ppc' = [ppc EXCEPT ![p] = "idle"]
    /\ entry' = [entry EXCEPT ![p] = NoEntry]
    /\ args' = [args EXCEPT ![p] = NoArgs]
    /\ UNCHANGED <<config, ncalls, nStarted, wpc, batch, ticker, request, last,
                   flushes>>

\* -------------------------------------------------------------- sendBatch
\* A processQueue that keeps the batch of a send that was not delivered.
ReturnKeep(w, how, lines, resp) ==
    /\ last' = [outcome |-> how, lines |-> lines, sent |-> request[w] # NoRequest,
                resp |-> resp]
    /\ request' = [request EXCEPT ![w] = NoRequest]
    /\ batch' = [batch EXCEPT ![w] = IF how = "Delivered" THEN <<>> ELSE @]
    /\ wpc' = [wpc EXCEPT ![w] = "select"]

\* A processQueue that returns when a send was not delivered: the goroutine
\* ends and receives nothing more.
ReturnExit(w, how, lines, resp) ==
    /\ last' = [outcome |-> how, lines |-> lines, sent |-> request[w] # NoRequest,
                resp |-> resp]
    /\ request' = [request EXCEPT ![w] = NoRequest]
    /\ batch' = [batch EXCEPT ![w] = <<>>]
    /\ wpc' = [wpc EXCEPT ![w] = IF how = "Delivered" THEN "select" ELSE "exited"]

\* sendBatch returns to processQueue, which sets batch = nil (lines 180, 185).
Return(w, how, lines, resp) ==
    /\ last' = [outcome |-> how, lines |-> lines, sent |-> request[w] # NoRequest,
                resp |-> resp]
    /\ request' = [request EXCEPT ![w] = NoRequest]
    /\ batch' = [batch EXCEPT ![w] = <<>>]
    /\ wpc' = [wpc EXCEPT ![w] = "select"]

\* ls.sendBatch(b) up to the call of client.Do (lines 192-263): marshal the
\* payload and build the request; either may fail and make sendBatch return.
SendBatch(w, b, trigger) ==
    /\ flushes' = Append(flushes, [worker |-> w, trigger |-> trigger, recs |-> b])
    /\ IF ~MarshalOK(b)
          THEN Return(w, "EncodeFailure", <<"Error marshaling log batch">>, NoResponse)
          ELSE IF ~endpointOK
                 THEN Return(w, "RequestFailure", <<"Error creating request">>,
                             NoResponse)
                 ELSE /\ request' = [request EXCEPT
                               ![w] = [method |-> "POST", path |-> "/v1/logs",
                                       contentType |-> "application/json",
                                       body |-> Payload(b)]]
                      /\ wpc' = [wpc EXCEPT ![w] = "inflight"]
                      /\ batch' = [batch EXCEPT ![w] = b]
                      /\ UNCHANGED last

\* Lines 263-267: client.Do returns an error (connection, DNS, timeout).
DoError(w) ==
    /\ wpc[w] = "inflight"
    /\ Return(w, "TransportFailure", <<"Error sending logs">>, NoResponse)
    /\ UNCHANGED <<config, logQueue, producerVars, nStarted, ticker, accepted,
                   dropped, flushes>>

\* A sendBatch that ignores the error of Decode.
ResponseLinesUnchecked(status, body) ==
    IF status >= 400
      THEN << "Error response", "Received status code" >>
      ELSE << "Logs successfully sent" >>

\* Lines 270-280: what sendBatch logs for a response.
ResponseLines(status, body) ==
    IF status >= 400
      THEN << IF DecodeOK(body) THEN "Error response" ELSE "Failed to decode error response",
              "Received status code" >>
      ELSE << "Logs successfully sent" >>

\* A sendBatch that compares the status with > 400.
ResponseOutcomeOver(status) == IF status > 400 THEN "Rejected" ELSE "Delivered"

\* Lines 270-280: the branch sendBatch takes for a response.
ResponseOutcome(status) == IF status >= 400 THEN "Rejected" ELSE "Delivered"

\* Lines 263-280: client.Do returns a response.
DoResponse(w, status, body) ==
    /\ wpc[w] = "inflight"
    /\ Return(w, ResponseOutcome(status), ResponseLines(status, body),
              {[status |-> status, body |-> body]})
    /\ UNCHANGED <<config, logQueue, producerVars, nStarted, ticker, accepted,
                   dropped, flushes>>

\* ----------------------------------------------------------- processQueue
\* A worker that flushes when the batch has grown beyond batchSize.
SelectEntryBeyond(w) ==
    /\ wpc[w] = "select"
    /\ logQueue # <<>>
    /\ logQueue' = Tail(logQueue)
    /\ IF Len(batch[w]) + 1 > batchSize
          THEN SendBatch(w, Append(batch[w], Head(logQueue)), "size")
          ELSE /\ batch' = [batch EXCEPT ![w] = Append(@, Head(logQueue))]
               /\ UNCHANGED <<wpc, request, last, flushes>>
    /\ UNCHANGED <<config, producerVars, nStarted, ticker, accepted, dropped>>

\* A worker that restarts its ticker when it flushes by size: the tick that
\* waits in ticker.C is discarded.
SelectEntryReset(w) ==
    /\ wpc[w] = "select"
    /\ logQueue # <<>>
    /\ logQueue' = Tail(logQueue)
    /\ IF Len(batch[w]) + 1 >= batchSize
          THEN /\ SendBatch(w, Append(batch[w], Head(logQueue)), "size")
               /\ ticker' = [ticker EXCEPT ![w] = <<>>]
          ELSE /\ batch' = [batch EXCEPT ![w] = Append(@, Head(logQueue))]
               /\ UNCHANGED <<wpc, request, last, flushes, ticker>>
    /\ UNCHANGED <<config, producerVars, nStarted, accepted, dropped>>

\* A worker that stores the record it receives over its accumulator instead
\* of appending it.
SelectEntryOverwrite(w) ==
    /\ wpc[w] = "select"
    /\ logQueue # <<>>
    /\ logQueue' = Tail(logQueue)
    /\ IF Len(batch[w]) + 1 >= batchSize
          THEN SendBatch(w, <<Head(logQueue)>>, "size")
          ELSE /\ batch' = [batch EXCEPT ![w] = <<Head(logQueue)>>]
               /\ UNCHANGED <<wpc, request, last, flushes>>
    /\ UNCHANGED <<config, producerVars, nStarted, ticker, accepted, dropped>>

\* Lines 176-181: a record is received from logQueue.
SelectEntry(w) ==
    /\ wpc[w] = "select"
    /\ logQueue # <<>>
    /\ logQueue' = Tail(logQueue)
    /\ IF Len(batch[w]) + 1 >= batchSize
          THEN SendBatch(w, Append(batch[w], Head(logQueue)), "size")
          ELSE /\ batch' = [batch EXCEPT ![w] = Append(@, Head(logQueue))]
               /\ UNCHANGED <<wpc, request, last, flushes>>
    /\ UNCHANGED <<config, producerVars, nStarted, ticker, accepted, dropped>>

\* A worker whose tick flushes a full batch only.
SelectTickFull(w) ==
    /\ wpc[w] = "select"
    /\ ticker[w] # <<>>
    /\ ticker' = [ticker EXCEPT ![w] = <<>>]
    /\ IF Len(batch[w]) > 0 /\ Len(batch[w]) >= batchSize
          THEN SendBatch(w, batch[w], "timer")
          ELSE UNCHANGED <<wpc, batch, request, last, flushes>>
    /\ UNCHANGED <<config, logQueue, producerVars, nStarted, accepted, dropped>>

\* A worker whose tick flushes whatever the accumulator holds, nothing included.
SelectTickAlways(w) ==
    /\ wpc[w] = "select"
    /\ ticker[w] # <<>>
    /\ ticker' = [ticker EXCEPT ![w] = <<>>]
    /\ SendBatch(w, batch[w], "timer")
    /\ UNCHANGED <<config, logQueue, producerVars, nStarted, accepted, dropped>>

\* Lines 182-186: a tick is received from ticker.C.
SelectTick(w) ==
    /\ wpc[w] = "select"
    /\ ticker[w] # <<>>
    /\ ticker' = [ticker EXCEPT ![w] = <<>>]
    /\ IF Len(batch[w]) > 0
          THEN SendBatch(w, batch[w], "timer")
          ELSE UNCHANGED <<wpc, batch, request, last, flushes>>
    /\ UNCHANGED <<config, logQueue, producerVars, nStarted, accepted, dropped>>

\* Number of flushes so far that a tick triggered.
TimerFlushes == Cardinality({i \in 1..Len(flushes) : flushes[i].trigger = "timer"})

\* The runtime's ticker: every interval it puts a tick into ticker.C, which
\* buffers one tick; a tick that finds the buffer full is dropped.
Tick(w, maxTimerFlushes) ==
    /\ wpc[w] # "unstarted"
    /\ TimerFlushes < maxTimerFlushes
    /\ ticker[w] = <<>>
    /\ ticker' = [ticker EXCEPT ![w] = <<Len(accepted)>>]
    /\ UNCHANGED <<config, logQueue, producerVars, nStarted, wpc, batch, request,
                   last, accepted, dropped, flushes>>

\* ------------------------------------------------------------------- Next
Severities == { <<"INFO", 9>> }

Next ==
    \/ Start(MaxWorkers)
    \/ \E p \in Producers, sev \in Severities, attrs \in LogAttrs :
           LogEnter(p, MaxLogs, sev, attrs)
    \/ \E p \in Producers : LogSelect(p, QueueCapacity)
    \/ \E w \in Workers : SelectEntry(w)
    \/ \E w \in Workers : SelectTick(w)
    \/ \E w \in Workers : Tick(w, MaxLogs + 1)
    \/ \E w \in Workers : DoError(w)
    \/ \E w \in Workers, status \in FewStatuses, body \in FewBodies :
           DoResponse(w, status, body)

Spec == Init /\ [][Next]_vars

\* ------------------------------------------------------------ main's run
\* The program as main runs it: one Start, one goroutine calling Log, the
\* queue of capacity 1000, and batch size 10 among the batch sizes.
Init10 == NewLogSender(BatchSizes \cup {MainBatchSize})

Next10 ==
    \/ Start(1)
    \/ \E sev \in Severities : LogEnter(1, MaxLogs10, sev, NilAttrs)
    \/ LogSelect(1, ChanCapacity)
    \/ SelectEntry(1)
    \/ SelectTick(1)
    \/ Tick(1, MaxTimerFlushes10)
    \/ DoError(1)
    \/ \E status \in FewStatuses, body \in FewBodies : DoResponse(1, status, body)

Spec10 == Init10 /\ [][Next10]_vars


\* ------------------------------------------------------- sendBatch's runs
\* One producer and one worker, with every response the model knows and
\* records that do and do not marshal.
NextSend ==
    \/ Start(1)
    \/ \E sev \in Severities, attrs \in LogAttrs : LogEnter(1, MaxLogsSend, sev, attrs)
    \/ LogSelect(1, QueueCapacity)
    \/ SelectEntry(1)
    \/ SelectTick(1)
    \/ Tick(1, MaxLogsSend + 1)
    \/ DoError(1)
    \/ \E status \in Statuses, body \in Bodies : DoResponse(1, status, body)

SpecSend == Init /\ [][NextSend]_vars

\* ------------------------------------------------------ the worker's runs
\* One producer and one worker under the scheduling the runtime gives them:
\* a goroutine that can take a step is not held back for ever, select takes
\* each of its ready cases sooner or later (it chooses among them at random),
\* the ticker goes on firing, and client.Do returns, by its Timeout of 10
\* seconds (line 111) at the latest. Nothing makes the program call Start or
\* Log, so these get no fairness.
NextLive ==
    \/ Start(1)
    \/ \E sev \in Severities, attrs \in LogAttrs : LogEnter(1, MaxLogsLive, sev, attrs)
    \/ LogSelect(1, QueueCapacity)
    \/ SelectEntry(1)
    \/ SelectTick(1)
    \/ Tick(1, MaxLogsLive + 1)
    \/ DoError(1)
    \/ \E status \in FewStatuses, body \in FewBodies : DoResponse(1, status, body)

SendEnds == DoError(1) \/ \E status \in FewStatuses, body \in FewBodies : DoResponse(1, status, body)

SpecLive ==
    /\ Init
    /\ [][NextLive]_vars
    /\ WF_vars(SelectEntry(1))
    /\ WF_vars(SelectTick(1))
    /\ WF_vars(Tick(1, MaxLogsLive + 1))
    /\ WF_vars(SendEnds)

\* ------------------------------------------------------------- Log's runs
\* One producer calling Log with the severities of main and attribute maps of
\* every dynamic type, in every iteration order; no worker is started.
MainSeverities == { <<"INFO", 9>>, <<"WARN", 13>> }

InitLog == NewLogSender({MainBatchSize})

NextLog ==
    \/ \E sev \in MainSeverities, m \in AttrMaps :
           \E o \in Orders(m) : LogEnter(1, MaxLogsLog, sev, o)
    \/ LogSelect(1, ChanCapacity)

SpecLog == InitLog /\ [][NextLog]_vars

\* ================================================================ claims
\* The set of the elements of a sequence.
Range(seq) == {seq[i] : i \in 1..Len(seq)}

\* The records handed to sendBatch so far.
Flushed == UNION {Range(flushes[i].recs) : i \in 1..Len(flushes)}

\* A step in which producer p completes the select of its Log call.
LogCompletes(p) == ppc[p] = "select" /\ ppc'[p] = "idle"

\* C1. A Log call that finds the queue at capacity drops the new record and
\* leaves the queue as it was, records and order; a Log call that finds room
\* appends the new record at the tail and does not drop it.
C1_FullQueueDropsNew ==
    [][\A p \in Producers :
          LogCompletes(p) =>
              IF Len(logQueue) = QueueCapacity
                THEN /\ logQueue' = logQueue
                     /\ entry[p] \in dropped'
                     /\ accepted' = accepted
                ELSE /\ logQueue' = Append(logQueue, entry[p])
                     /\ entry[p] \notin dropped'
                     /\ dropped' = dropped]_vars

\* A record has been dropped at a full queue that still holds the records
\* accepted before it.
C1_Witness ==
    /\ dropped # {}
    /\ Len(logQueue) = QueueCapacity
    /\ logQueue = accepted

\* C2. A producer that has reached the select of Log can always complete it:
\* the step waits for no worker and no other producer, whether the queue is
\* full or not and whatever the workers are doing.
C2_LogNeverBlocks ==
    \A p \in Producers : ppc[p] = "select" => ENABLED LogSelect(p, QueueCapacity)

\* A producer is at its select while the queue is full and no worker has ever
\* been started, so that nothing will make room.
C2_Witness ==
    \E p \in Producers :
        /\ ppc[p] = "select"
        /\ Len(logQueue) = QueueCapacity
        /\ nStarted = 0

\* A step in which worker w receives from ticker.C.
TickHandled(w) == ticker[w] # <<>> /\ ticker'[w] = <<>>

\* No flush so far was triggered by a tick.
OnlySizeFlushes == \A i \in 1..Len(flushes) : flushes[i].trigger = "size"

\* The records of accepted from position a to position b.
Records(a, b) == SubSeq(accepted, a, b)

\* As long as no tick has flushed anything, the one worker has cut the d records
\* it has drained into d \div batchSize batches of batchSize consecutive
\* records, and holds the other d % batchSize records in its accumulator.
C3_SizeFlushes ==
    (nStarted <= 1 /\ batchSize >= 1 /\ OnlySizeFlushes) =>
        LET d == Len(accepted) - Len(logQueue)
        IN  /\ Len(flushes) = d \div batchSize
            /\ \A i \in 1..Len(flushes) :
                  /\ flushes[i].recs = Records((i - 1) * batchSize + 1, i * batchSize)
                  /\ Len(flushes[i].recs) = batchSize
            /\ \A w \in Workers :
                  wpc[w] = "select" => batch[w] = Records(d - (d % batchSize) + 1, d)

\* The first tick handled after all n accepted records were drained with no
\* tick-triggered flush before flushes the n % batchSize remaining records
\* together, and flushes nothing when none remains.
C3_TickFlushesRest ==
    \A w \in Workers :
        (TickHandled(w) /\ nStarted = 1 /\ batchSize >= 1 /\ OnlySizeFlushes
            /\ logQueue = <<>>) =>
            LET n == Len(accepted)
            IN  IF n % batchSize = 0
                  THEN flushes' = flushes
                  ELSE flushes' = Append(flushes,
                           [worker |-> w, trigger |-> "timer",
                            recs |-> Records(n - (n % batchSize) + 1, n)])

\* C3. With one worker, batch size B >= 1 and no tick-triggered flush before
\* the n enqueued records are drained, there are n \div B size-triggered
\* flushes of B consecutive records each, and the next tick flushes the
\* remaining n % B records together; for B = 10 and n = 15 these are the
\* flushes of records 1 to 10 and of records 11 to 15.
C3_BatchesBySizeThenTick == []C3_SizeFlushes /\ [][C3_TickFlushesRest]_vars

\* Batch size 10, 15 records enqueued, two flushes: records 1 to 10 by size,
\* then records 11 to 15 by the tick.
C3_Witness ==
    /\ batchSize = MainBatchSize
    /\ Len(accepted) = 15
    /\ Len(flushes) = 2
    /\ flushes[1] = [worker |-> 1, trigger |-> "size", recs |-> Records(1, 10)]
    /\ flushes[2] = [worker |-> 1, trigger |-> "timer", recs |-> Records(11, 15)]

\* With fewer than batchSize records enqueued, every flush so far was
\* triggered by a tick.
C4_NoFlushBeforeTick ==
    (nStarted <= 1 /\ batchSize >= 1 /\ Len(accepted) < batchSize) =>
        \A i \in 1..Len(flushes) : flushes[i].trigger = "timer"

\* A handled tick that fired after every record was enqueued flushes, in one
\* flush, all the records that are pending, in the queue or the accumulator.
C4_TickFlushesPending ==
    \A w \in Workers :
        (TickHandled(w) /\ nStarted = 1 /\ batchSize >= 1
            /\ Len(accepted) < batchSize /\ ticker[w][1] = Len(accepted)) =>
            IF batch[w] \o logQueue = <<>>
              THEN flushes' = flushes
              ELSE flushes' = Append(flushes,
                       [worker |-> w, trigger |-> "timer", recs |-> batch[w] \o logQueue])

\* C4 as claimed: with fewer than batchSize records enqueued no flush occurs
\* until a tick is handled, and the tick is followed by exactly one flush that
\* contains all pending records.
C4_Claimed == []C4_NoFlushBeforeTick /\ [][C4_TickFlushesPending]_vars

\* A handled tick flushes, in one flush, the records of the accumulator, in
\* order, and leaves the queue as it is.
C4_TickFlushesAccumulator ==
    \A w \in Workers :
        (TickHandled(w) /\ nStarted = 1 /\ batchSize >= 1
            /\ Len(accepted) < batchSize) =>
            /\ logQueue' = logQueue
            /\ IF batch[w] = <<>>
                  THEN flushes' = flushes
                  ELSE flushes' = Append(flushes,
                           [worker |-> w, trigger |-> "timer", recs |-> batch[w]])

\* C4, amended. With one worker and fewer than batchSize records enqueued, no
\* flush occurs until a tick is handled; a handled tick that finds the
\* accumulator non-empty causes exactly one flush, of all the records
\* accumulated; records still in the queue stay there for a later flush.
C4_TickFlushesAccumulated == []C4_NoFlushBeforeTick /\ [][C4_TickFlushesAccumulator]_vars

\* Batch size 10: a tick has flushed the accumulator while an accepted record
\* was still in the queue.
C4_Witness ==
    /\ batchSize = MainBatchSize
    /\ Len(accepted) < batchSize
    /\ Len(flushes) = 1
    /\ flushes[1].trigger = "timer"
    /\ logQueue # <<>>
    /\ Len(flushes[1].recs) + Len(logQueue) = Len(accepted)

\* Number of records handed to sendBatch so far, counted with repetition.
RECURSIVE FlushedCount(_)
FlushedCount(n) == IF n = 0 THEN 0 ELSE Len(flushes[n].recs) + FlushedCount(n - 1)

\* C5. Delivery is at most once: no record is handed to sendBatch twice,
\* whatever the outcomes of the sends were; a record handed to sendBatch is
\* not in the queue and not in the accumulator of a worker that waits for its
\* next event; and what a worker has in flight is one batch handed to sendBatch.
C5_AtMostOnce ==
    /\ FlushedCount(Len(flushes)) = Cardinality(Flushed)
    /\ \A r \in Flushed :
          /\ r \notin Range(logQueue)
          /\ \A w \in Workers : wpc[w] = "select" => r \notin Range(batch[w])
    /\ \A w \in Workers :
          wpc[w] = "inflight" =>
              /\ \E i \in 1..Len(flushes) : flushes[i].recs = batch[w]
              /\ request[w].body = Payload(batch[w])

\* A send has failed or was rejected and the worker has gone on to flush
\* another batch.
C5_Witness ==
    /\ last.outcome \in {"Rejected", "TransportFailure", "EncodeFailure", "RequestFailure"}
    /\ Len(flushes) >= 2
    /\ \E w \in Workers : wpc[w] = "select" /\ batch[w] # <<>>

\* The statuses of the response the latest sendBatch call got.
LastStatus == {r.status : r \in last.resp}

\* C6 as claimed: four outcomes; Delivered exactly for a 2xx or 3xx response,
\* Rejected exactly for a status >= 400, TransportFailure for a request
\* without response, EncodeFailure with no request issued.
C6_Claimed ==
    /\ last.outcome \in {"None", "Delivered", "Rejected", "TransportFailure", "EncodeFailure"}
    /\ last.outcome = "Delivered" <=> \E st \in LastStatus : st >= 200 /\ st <= 399
    /\ last.outcome = "Rejected" <=> \E st \in LastStatus : st >= 400
    /\ (last.sent /\ last.resp = NoResponse) => last.outcome = "TransportFailure"
    /\ last.outcome = "EncodeFailure" => ~last.sent

\* How the latest sendBatch call ended, against what it got.
C6_Classified ==
    /\ last.outcome \in {"None", "Delivered", "Rejected", "TransportFailure",
                          "EncodeFailure", "RequestFailure"}
    /\ last.outcome = "Delivered" <=> \E st \in LastStatus : st < 400
    /\ last.outcome = "Rejected" <=> \E st \in LastStatus : st >= 400
    /\ last.outcome = "TransportFailure" <=> (last.sent /\ last.resp = NoResponse)
    /\ last.outcome \in {"EncodeFailure", "RequestFailure"} =>
           (~last.sent /\ last.resp = NoResponse)
    /\ last.resp # NoResponse => last.sent

\* A sendBatch call whose batch does not marshal ends in EncodeFailure, one
\* whose request cannot be built ends in RequestFailure, both without a
\* request; any other call issues one request and has no outcome yet.
C6_CallEnds ==
    Len(flushes') = Len(flushes) + 1 =>
        LET f == flushes'[Len(flushes')]
        IN  IF ~MarshalOK(f.recs)
              THEN last'.outcome = "EncodeFailure" /\ request' = request
              ELSE IF ~endpointOK
                     THEN last'.outcome = "RequestFailure" /\ request' = request
                     ELSE /\ request'[f.worker] # NoRequest
                          /\ request[f.worker] = NoRequest
                          /\ last' = last

\* C6, amended. Every flush ends in exactly one of five outcomes: Delivered
\* exactly when a response with a status below 400 is received, Rejected
\* exactly when one with a status >= 400 is, TransportFailure exactly when the
\* request yields no response, EncodeFailure when serialization fails and
\* RequestFailure when the request cannot be built, both with no request issued.
C6_FiveOutcomes == []C6_Classified /\ [][C6_CallEnds]_vars

\* A response with status 101 has been taken as Delivered.
C6_Witness == last.outcome = "Delivered" /\ LastStatus = {101}

\* How often a line occurs in what the latest sendBatch call logged.
LineCount(line) == Cardinality({i \in 1..Len(last.lines) : last.lines[i] = line})

\* The index in flushes of the latest sendBatch call of the one worker that
\* has returned.
LastReturned == IF wpc[1] = "inflight" THEN Len(flushes) - 1 ELSE Len(flushes)

\* C7. A flush answered with status 422 and a body that does not decode is
\* Rejected and logs exactly one entry noting the decode failure; its records
\* are not put back into the queue or the accumulator and are in no other flush.
C7_UndecodableRejection ==
    \A r \in last.resp :
        (nStarted = 1 /\ r.status = 422 /\ ~DecodeOK(r.body)) =>
            /\ last.outcome = "Rejected"
            /\ LineCount("Failed to decode error response") = 1
            /\ LineCount("Error response") = 0
            /\ \A x \in Range(flushes[LastReturned].recs) :
                  /\ x \notin Range(logQueue)
                  /\ wpc[1] = "select" => x \notin Range(batch[1])
                  /\ \A i \in 1..Len(flushes) :
                        i # LastReturned => x \notin Range(flushes[i].recs)

\* A 422 with an undecodable body has been received, and the worker has
\* flushed another batch since.
C7_Witness ==
    /\ \E r \in last.resp : r.status = 422 /\ r.body = "garbage"
    /\ wpc[1] = "inflight"
    /\ Len(flushes) >= 2

\* The records in the accumulators of the workers that wait for an event.
Accumulated == UNION {Range(batch[w]) : w \in {v \in Workers : wpc[v] = "select"}}

\* The producer and the call number of a record.
ProducerOf(r) == r.id[1]
CallOf(r) == r.id[2]

\* C8. With one worker, two records of the same producer are flushed in the
\* order of their Log calls: the earlier one in an earlier batch, or earlier
\* in the same batch; and no record is flushed while an earlier record of its
\* producer waits in the queue or in the accumulator.
C8_ProducerOrder ==
    nStarted <= 1 =>
        /\ \A i, k \in 1..Len(flushes) :
              \A j \in 1..Len(flushes[i].recs), l \in 1..Len(flushes[k].recs) :
                  LET r1 == flushes[i].recs[j]
                      r2 == flushes[k].recs[l]
                  IN  (ProducerOf(r1) = ProducerOf(r2) /\ CallOf(r1) < CallOf(r2)) =>
                          (i < k \/ (i = k /\ j < l))
        /\ \A r2 \in Flushed :
              \A r1 \in Range(logQueue) \cup Accumulated :
                  ProducerOf(r1) = ProducerOf(r2) => CallOf(r1) > CallOf(r2)

\* Two records of one producer have been flushed in different batches, and a
\* record of another producer in between or along with them.
C8_Witness ==
    /\ nStarted = 1
    /\ \E i, k \in 1..Len(flushes) :
          /\ i < k
          /\ \E r1 \in Range(flushes[i].recs), r2 \in Range(flushes[k].recs) :
                ProducerOf(r1) = ProducerOf(r2)
    /\ \E r1, r2 \in Flushed : ProducerOf(r1) # ProducerOf(r2)

\* C9 as claimed: once the tick that fired after a record was enqueued has
\* been handled, the record is flushed.
C9_Claimed ==
    [][\A w \in Workers :
          (TickHandled(w) /\ nStarted = 1) =>
              \A i \in 1..ticker[w][1] : accepted[i] \in Flushed']_vars

\* C9, amended. Once a tick has been handled, every record that was in the
\* accumulator is flushed; a record enqueued before the tick fired is flushed
\* or still in the queue, where the tick leaves it.
C9_TickFlushesAccumulator ==
    [][\A w \in Workers :
          (TickHandled(w) /\ nStarted = 1) =>
              /\ Range(batch[w]) \subseteq Flushed'
              /\ \A i \in 1..ticker[w][1] :
                    accepted[i] \in Flushed' \cup Range(logQueue')
              /\ logQueue' = logQueue]_vars

\* A tick has flushed the accumulator and accepted records are still in the
\* queue.
C9_Witness ==
    /\ nStarted = 1
    /\ Len(flushes) >= 1
    /\ flushes[Len(flushes)].trigger = "timer"
    /\ wpc[1] = "inflight"
    /\ ticker[1] = <<>>
    /\ logQueue # <<>>

\* The workers that run, and those that are inside client.Do.
Running == {w \in Workers : wpc[w] # "unstarted"}
InFlight == {w \in Workers : wpc[w] = "inflight"}

\* C10 as claimed: whatever calls were made, one worker, and never two sends
\* in flight together.
C10_Claimed ==
    /\ Cardinality(Running) <= 1
    /\ Cardinality(InFlight) <= 1

\* There is one worker for each Start call, so no more sends in flight than
\* Start calls, and no record is in two accumulators.
C10_WorkerPerStart ==
    /\ Cardinality(Running) = nStarted
    /\ Cardinality(InFlight) <= nStarted
    /\ \A v, w \in Workers : v # w => Range(batch[v]) \cap Range(batch[w]) = {}

\* An accumulator changes by its worker's receive from the queue or by its
\* reset, and no step changes two accumulators.
C10_OwnAccumulator ==
    \A w \in Workers :
        batch'[w] # batch[w] =>
            /\ wpc[w] # "unstarted"
            /\ \/ batch'[w] = <<>>
               \/ /\ wpc[w] = "select"
                  /\ logQueue # <<>>
                  /\ batch'[w] = Append(batch[w], Head(logQueue))
                  /\ logQueue' = Tail(logQueue)
            /\ \A v \in Workers : v # w => batch'[v] = batch[v]

\* C10, amended. Each Start call starts one worker: after one Start call one
\* worker drains, batches and flushes and no two sends are in flight together;
\* after k Start calls k workers do, with up to k sends in flight. Each worker
\* has its own accumulator, appended to by that worker alone.
C10_OneWorkerPerStart == []C10_WorkerPerStart /\ [][C10_OwnAccumulator]_vars

\* Start has been called twice and two sends are in flight together.
C10_Witness == nStarted = 2 /\ Cardinality(InFlight) = 2

\* A step in which worker w flushes with the given trigger.
FlushStep(w, trigger) ==
    /\ Len(flushes') = Len(flushes) + 1
    /\ flushes'[Len(flushes')].worker = w
    /\ flushes'[Len(flushes')].trigger = trigger

\* A step in which the send of worker w returns from client.Do.
SendReturns(w) == wpc[w] = "inflight" /\ wpc'[w] = "select"

\* A size-triggered flush and the return of a send, however late, leave every
\* ticker as it is: a tick that waits in ticker.C is still there afterwards.
C11_FlushKeepsTicker ==
    \A w \in Workers :
        (FlushStep(w, "size") \/ SendReturns(w)) => ticker' = ticker

\* The ticker of a running worker can fire whenever ticker.C has room, whether
\* the worker waits for an event or is inside a send, and whatever it flushed.
C11_TickerFires ==
    \A w \in Running :
        (ticker[w] = <<>> /\ TimerFlushes < MaxLogsSend + 1) =>
            ENABLED Tick(w, MaxLogsSend + 1)

\* C11. A size-triggered flush does not reset the timer: the flush step leaves
\* the ticker unchanged, and the ticker goes on firing whatever flushes occur,
\* during a send that has not returned as well.
C11_SizeFlushKeepsTimer == []C11_TickerFires /\ [][C11_FlushKeepsTicker]_vars

\* A tick that fired before the first record was enqueued is still in
\* ticker.C after a size-triggered flush, whose send has not returned.
C11_Witness ==
    /\ Len(flushes) >= 1
    /\ flushes[Len(flushes)].trigger = "size"
    /\ wpc[1] = "inflight"
    /\ ticker[1] = <<0>>

\* A tick handled while the accumulator is empty changes nothing but ticker.C:
\* no sendBatch call, no request, and accumulator, queue and worker as before.
C12_EmptyTickNoOp ==
    \A w \in Workers :
        (TickHandled(w) /\ wpc[w] = "select" /\ batch[w] = <<>>) =>
            /\ flushes' = flushes
            /\ request' = request
            /\ batch' = batch
            /\ logQueue' = logQueue
            /\ wpc' = wpc
            /\ last' = last

\* No sendBatch call was given an empty batch, and no request carries one.
C12_NoEmptyBatch ==
    /\ \A i \in 1..Len(flushes) : flushes[i].recs # <<>>
    /\ \A w \in Workers :
          request[w] # NoRequest =>
              request[w].body.resourceLogs[1].ScopeLogs[1].LogRecords # <<>>

\* C12. A timer tick handled while the accumulator is empty is a no-op: no
\* send is issued and the accumulator and the queue are unchanged; and no send
\* ever carries an empty batch.
C12_EmptyTickIsNoOp == []C12_NoEmptyBatch /\ [][C12_EmptyTickNoOp]_vars

\* A tick has flushed a batch before, and now a worker with an empty
\* accumulator has a tick to handle while records wait in the queue.
C12_Witness ==
    /\ TimerFlushes >= 1
    /\ \E w \in Workers :
          /\ wpc[w] = "select"
          /\ ticker[w] # <<>>
          /\ batch[w] = <<>>
          /\ logQueue # <<>>

\* An AttributeValue with no variant set but the given one.
OnlyVariant(variant, x) ==
    [f \in {"StringValue", "BoolValue", "IntValue", "DoubleValue", "ArrayValue",
             "KvlistValue", "BytesValue"} |-> IF f = variant THEN {x} ELSE {}]

\* The attribute values of the Log call of producer p that has built its
\* record, as pairs of the value passed and the AttributeValue made of it.
Converted(p) ==
    {<<args[p].attrs[i][2], entry[p].Attributes[i].Value>> : i \in 1..Len(args[p].attrs)}

\* The producers that have built the record of their Log call.
Built == {p \in Producers : args[p] # NoArgs}

\* C13. For a string, an int, an int64, a float64 and a bool,
\* convertToAttributeValue returns an AttributeValue with the String, Int64,
\* Int64, Double and Bool variant set to the value and no other variant set;
\* for a value of any other type it returns one with the String variant alone,
\* set to the text %v prints for the value.
C13_ExactlyTheVariant ==
    \A p \in Built :
        \A c \in Converted(p) :
            LET v == c[1]
                a == c[2]
            IN  /\ v.type = "string" => a = OnlyVariant("StringValue", v.s)
                /\ v.type = "int" => a = OnlyVariant("IntValue", v.i)
                /\ v.type = "int64" => a = OnlyVariant("IntValue", v.i)
                /\ v.type = "float64" => a = OnlyVariant("DoubleValue", v.f)
                /\ v.type = "bool" => a = OnlyVariant("BoolValue", v.b)
                /\ v.type = "nil" => a = OnlyVariant("StringValue", "<nil>")
                /\ v.type = "float32" => a = OnlyVariant("StringValue", v.f)
                /\ v.type \in {"int32", "uint8"} =>
                       a = OnlyVariant("StringValue", Numeral(v.i))

\* A Log call has converted a value of a type that is not in the type switch:
\* the uint8 200 has become the string "200".
C13_Witness ==
    \E p \in Built :
        <<[type |-> "uint8", i |-> 200], OnlyVariant("StringValue", "200")>>
            \in Converted(p)

\* C14 as claimed: convertToAttributeValue gives the Int64 variant, holding
\* the same number, for a signed 32-bit or 64-bit integer (int32 included, not
\* a String) and the Double variant for a floating-point value.
C14_Claimed ==
    \A p \in Built :
        \A c \in Converted(p) :
            LET v == c[1]
                a == c[2]
            IN  /\ v.type \in {"int", "int32", "int64"} =>
                       a = OnlyVariant("IntValue", v.i)
                /\ v.type \in {"float32", "float64"} =>
                       a = OnlyVariant("DoubleValue", v.f)

\* The attributes of the record producer p has built, as <<key, value>> pairs.
Attributes(p) ==
    {<<entry[p].Attributes[i].Key, entry[p].Attributes[i].Value>> :
        i \in 1..Len(entry[p].Attributes)}

\* The keys of the attribute map passed by producer p.
KeysPassed(p) == {kv[1] : kv \in Range(args[p].attrs)}

\* C15. The record a Log call builds has a body whose only variant is String,
\* equal to the message, and the severity text and number passed; with nil
\* attributes it has no attributes, and with a map of n entries it has exactly
\* n attributes, one for each key of the map, holding the converted value of
\* that key, in whatever order; for the map of main's WARN call these are an
\* Int64, a Double, a Bool and a String.
C15_RecordBuilt ==
    \A p \in Built :
        /\ entry[p].Body = OnlyVariant("StringValue", args[p].message)
        /\ entry[p].SeverityText = args[p].severityText
        /\ entry[p].SeverityNumber = args[p].severityNumber
        /\ args[p].attrs = NilAttrs => entry[p].Attributes = <<>>
        /\ Len(entry[p].Attributes) = Cardinality(KeysPassed(p))
        /\ Attributes(p) =
               {<<kv[1], convertToAttributeValue(kv[2])>> : kv \in Range(args[p].attrs)}
        /\ \A k \in KeysPassed(p) :
               Cardinality({i \in 1..Len(entry[p].Attributes) :
                               entry[p].Attributes[i].Key = k}) = 1
        /\ Range(args[p].attrs) = WarnAttrs =>
               Attributes(p) = { <<"retry.count", OnlyVariant("IntValue", 3)>>,
                                 <<"timeout", OnlyVariant("DoubleValue", "30.5")>>,
                                 <<"enabled", OnlyVariant("BoolValue", TRUE)>>,
                                 <<"user", OnlyVariant("StringValue", "john_doe")>> }

\* main's WARN call has built its record with the four attributes in an order
\* that is not the order of the map literal: "user" first, "retry.count" last.
C15_Witness ==
    \E p \in Built :
        /\ args[p].severityText = "WARN"
        /\ entry[p].SeverityNumber = 13
        /\ Range(args[p].attrs) = WarnAttrs
        /\ Len(entry[p].Attributes) = 4
        /\ entry[p].Attributes[1].Key = "user"
        /\ entry[p].Attributes[4].Key = "retry.count"

\* The request worker w has in flight wraps, in one ResourceLogs with one
\* ScopeLogs, the records of the batch the worker flushed last; its resource
\* has the three attributes and its scope the name and version of sendBatch.
C16_OneEnvelope ==
    \A w \in Workers :
        request[w] # NoRequest =>
            LET rl == request[w].body.resourceLogs
            IN  /\ Len(rl) = 1
                /\ Len(rl[1].ScopeLogs) = 1
                /\ rl[1].ScopeLogs[1].LogRecords = batch[w]
                /\ \E i \in 1..Len(flushes) :
                       /\ flushes[i].worker = w
                       /\ flushes[i].recs = rl[1].ScopeLogs[1].LogRecords
                       /\ \A j \in (i + 1)..Len(flushes) : flushes[j].worker # w
                /\ [i \in 1..Len(rl[1].Resource.Attributes) |->
                       <<rl[1].Resource.Attributes[i].Key,
                         rl[1].Resource.Attributes[i].Value.StringValue>>]
                     = << <<"service.name", {"my-go-app"}>>,
                          <<"service.version", {"1.0.0"}>>,
                          <<"telemetry.sdk.language", {"go"}>> >>
                /\ rl[1].ScopeLogs[1].Scope = [Name |-> "custom-logger", Version |-> "1.0"]

\* The batch of a flush is the accumulator in its order, with the record just
\* received at its end when the flush is size-triggered; a request issued by
\* the flush carries these records.
C16_FlushedInOrder ==
    \A w \in Workers :
        (\E t \in {"size", "timer"} : FlushStep(w, t)) =>
            LET f == flushes'[Len(flushes')]
            IN  /\ f.recs = IF f.trigger = "size"
                               THEN Append(batch[w], Head(logQueue))
                               ELSE batch[w]
                /\ request'[w] # NoRequest =>
                       request'[w].body.resourceLogs[1].ScopeLogs[1].LogRecords = f.recs

\* C16. Every send wraps its batch in an envelope with exactly one Resource
\* and exactly one Scope, whose records are the records of the flushed batch in
\* the order they were accumulated; the Resource attributes and the Scope name
\* and version are the same in every send, whatever was sent before.
C16_EnvelopePerSend == []C16_OneEnvelope /\ [][C16_FlushedInOrder]_vars

\* A batch of two records is in flight, after an earlier send has returned.
C16_Witness ==
    /\ last.sent
    /\ Len(flushes) >= 2
    /\ wpc[1] = "inflight"
    /\ Len(request[1].body.resourceLogs[1].ScopeLogs[1].LogRecords) = 2

\* A worker that waits for its next event holds fewer than batchSize records.
C17_BelowBatchSize ==
    batchSize >= 1 =>
        \A w \in Workers : wpc[w] = "select" => Len(batch[w]) < batchSize

\* Every flushed batch holds at least one and at most batchSize records:
\* batchSize of them when its trigger was the size, fewer when it was a tick.
C17_FlushedSizes ==
    batchSize >= 1 =>
        \A i \in 1..Len(flushes) :
            LET n == Len(flushes[i].recs)
            IN  /\ n >= 1
                /\ n <= batchSize
                /\ flushes[i].trigger = "size" => n = batchSize
                /\ flushes[i].trigger = "timer" => n < batchSize

\* The step that receives a record either flushes, by size, the batchSize
\* records the accumulator has reached, or leaves an accumulator that is still
\* below batchSize and flushes nothing.
C17_FlushAtSize ==
    (batchSize >= 1 /\ Len(logQueue') < Len(logQueue)) =>
        \/ \E w \in Workers :
               /\ FlushStep(w, "size")
               /\ flushes'[Len(flushes')].recs = Append(batch[w], Head(logQueue))
               /\ Len(batch[w]) + 1 = batchSize
        \/ /\ flushes' = flushes
           /\ \E w \in Workers :
                 /\ batch'[w] = Append(batch[w], Head(logQueue))
                 /\ Len(batch'[w]) < batchSize

\* C17. For batch size B >= 1 a size-triggered flush happens as soon as the
\* accumulator reaches B: a worker waiting for its next event holds fewer than
\* B records, and every flushed batch holds at least 1 and at most B records,
\* exactly B when size-triggered and fewer than B when timer-triggered.
C17_FlushWhenFull ==
    []C17_BelowBatchSize /\ []C17_FlushedSizes /\ [][C17_FlushAtSize]_vars

\* Batch size 10: a batch of 10 was flushed by size and a smaller one by a
\* tick, and the worker waits with records in its accumulator.
C17_Witness ==
    /\ batchSize = MainBatchSize
    /\ \E i \in 1..Len(flushes) : flushes[i].trigger = "size"
    /\ \E i \in 1..Len(flushes) : flushes[i].trigger = "timer"
    /\ wpc[1] = "select"
    /\ batch[1] # <<>>

\* Number of records in the accumulators and in-flight batches of workers 1..n.
RECURSIVE InBatches(_)
InBatches(n) == IF n = 0 THEN 0 ELSE Len(batch[n]) + InBatches(n - 1)

\* Number of records the pipeline holds: those in the queue and those a worker
\* has received and not yet let go of.
Held == Len(logQueue) + InBatches(MaxWorkers)

\* The most one worker holds: batchSize records, one when batchSize is below 1.
MaxBatch == IF batchSize > 1 THEN batchSize ELSE 1

Logged ==
    UNION {{<<p, k>> : k \in 1..(IF ppc[p] = "select" THEN ncalls[p] - 1 ELSE ncalls[p])} :
              p \in Producers}

\* Number of records in the accumulators of workers 1..n that wait for an event.
RECURSIVE InAccumulators(_)
InAccumulators(n) ==
    IF n = 0 THEN 0
    ELSE (IF wpc[n] = "select" THEN Len(batch[n]) ELSE 0) + InAccumulators(n - 1)

\* The records handed to sendBatch by the first n flushes, in order.
RECURSIVE FlushedSeq(_)
FlushedSeq(n) == IF n = 0 THEN <<>> ELSE FlushedSeq(n - 1) \o flushes[n].recs

\* Every record of a Log call that has returned is in one place, once: it was
\* dropped, or it is in the queue, in an accumulator, or in one flushed batch.
C19_OnePlace ==
    /\ {r.id : r \in dropped \cup Range(accepted)} = Logged
    /\ Cardinality(dropped) + Len(accepted) = Cardinality(Logged)
    /\ Range(accepted) = Range(logQueue) \cup Accumulated \cup Flushed
    /\ Len(accepted) =
          Len(logQueue) + InAccumulators(MaxWorkers) + FlushedCount(Len(flushes))
    /\ \A w \in InFlight : \E i \in 1..Len(flushes) : flushes[i].recs = batch[w]

\* With one worker the flushed batches, the accumulator and the queue, put
\* one after the other, are the accepted records in the order of acceptance:
\* each batch is the sequence received since the flush before it.
C19_InSequence ==
    nStarted <= 1 =>
        FlushedSeq(Len(flushes))
            \o (IF wpc[1] = "select" THEN batch[1] ELSE <<>>)
            \o logQueue = accepted

\* A flush hands to sendBatch what its worker has received since its flush
\* before: the accumulator, with the record just received at its end.
C19_FlushTakesAll ==
    \A w \in Workers :
        /\ FlushStep(w, "size") =>
               /\ flushes'[Len(flushes')].recs = batch[w] \o <<Head(logQueue)>>
               /\ logQueue' = Tail(logQueue)
        /\ FlushStep(w, "timer") =>
               /\ flushes'[Len(flushes')].recs = batch[w]
               /\ logQueue' = logQueue
        /\ (FlushStep(w, "size") \/ FlushStep(w, "timer")) =>
               /\ wpc[w] = "select"
               /\ wpc'[w] = "select" => batch'[w] = <<>>
               /\ wpc'[w] = "inflight" => batch'[w] = flushes'[Len(flushes')].recs

\* C19. Records are conserved up to the send: every record passed to a Log
\* call that has returned is in exactly one of these places: dropped at the
\* full queue, in the queue, in an accumulator, or in exactly one batch handed
\* to a send; and each batch handed to a send is the sequence of records its
\* worker has received since its previous flush.
C19_Conserved == []C19_OnePlace /\ []C19_InSequence /\ [][C19_FlushTakesAll]_vars

\* A record was dropped at the full queue, another has been flushed, and a
\* third is in the queue.
C19_Witness ==
    /\ dropped # {}
    /\ Flushed # {}
    /\ logQueue # <<>>
    /\ Cardinality(Logged) = 3

\* C20. Once Start has been called, with the worker scheduled fairly, the
\* ticker firing and every send returning, every record accepted into the
\* queue is eventually handed to sendBatch for a send attempt, the records
\* accepted before the Start call as well.
C20_EventuallySent ==
    \A k \in 1..MaxLogsLive :
        (nStarted >= 1 /\ Len(accepted) >= k) ~>
            (Len(accepted) >= k /\ accepted[k] \in Flushed)

\* The queue was filled and a record dropped before the worker received
\* anything; the worker has since flushed every accepted record, the last
\* ones at a tick.
C20_Witness ==
    /\ nStarted = 1
    /\ dropped # {}
    /\ Len(accepted) = QueueCapacity
    /\ Range(accepted) = Flushed
    /\ flushes[Len(flushes)].trigger = "timer"

====
